---- MODULE Spec2Model ----
(***************************************************************************)
(* A model of parlai/agents/autorec_tag/autorec_tag.py (AutorecTagAgent):  *)
(* the mention extraction and vectorisation of an observation, and the     *)
(* training / evaluation steps with the metrics they accumulate.           *)
(***************************************************************************)
EXTENDS FiniteSets, Integers, Sequences, TLC

VARIABLES
    n_movies,       \* self.n_movies, fixed at construction
    history,        \* the string history.get_history_str() returns
    obs0,           \* the observation as it was handed to the first vectorize call
    obs,            \* the observation (a dict, mutated in place by vectorize)
    ret,            \* outcome of the last vectorize call
    vcalls,         \* number of vectorize calls made on obs
    created,        \* the agent instances constructed so far
    modelRef,       \* per agent: the model object self.model refers to
    modelParams,    \* per model object: its parameters (a version number)
    optSteps,       \* per agent: steps taken by its own self.optimizer
    metricsRef,     \* per agent: the dict self.metrics refers to
    metricsHeap,    \* per metrics dict: loss, num_tokens and the recall lists
    updates,        \* per agent: self._number_training_updates
    evalTokens,     \* per agent: tokens added by eval_step since the last reset
    last            \* the last call made: operation, agent, argument, how it ended, value

vecVars == <<n_movies, history, obs0, obs, ret, vcalls>>
agentVars == <<created, modelRef, modelParams, optSteps, metricsRef, metricsHeap,
               updates, evalTokens, last>>
vars == <<vecVars, agentVars>>

-----------------------------------------------------------------------------
(* Bounds of the model *)

MaxHistLen == 4
MaxLabelLen == 3
MaxCalls == 2

-----------------------------------------------------------------------------
(* Strings are sequences of characters. *)

HistoryAlphabet == {"@", "#", "0", "1"}
LabelAlphabet == {"@", "#", "1"}

Digits == {"0", "1", "2", "3", "4", "5", "6", "7", "8", "9"}

DigitVal(c) ==
    CASE c = "0" -> 0 [] c = "1" -> 1 [] c = "2" -> 2 [] c = "3" -> 3
      [] c = "4" -> 4 [] c = "5" -> 5 [] c = "6" -> 6 [] c = "7" -> 7
      [] c = "8" -> 8 [] c = "9" -> 9

StringsUpTo(alphabet, n) == UNION {[1..k -> alphabet] : k \in 0..n}

\* int(x): base-10 value of a non-empty digit string, most significant first
RECURSIVE ParseInt(_)
ParseInt(ds) ==
    IF ds = <<>> THEN 0
    ELSE 10 * ParseInt(SubSeq(ds, 1, Len(ds) - 1)) + DigitVal(ds[Len(ds)])

\* last index of the run of digits that starts at index i (i - 1 when s[i] is no digit)
RECURSIVE DigitRunEnd(_, _)
DigitRunEnd(s, i) ==
    IF i <= Len(s) /\ s[i] \in Digits THEN DigitRunEnd(s, i + 1) ELSE i - 1

\* re.findall of a pattern  t1\d+|t2\d+|...  (tags = {t1, t2, ...}): the
\* non-overlapping matches, scanning left to right from index i, \d+ greedy
RECURSIVE FindAll(_, _, _)
FindAll(tags, s, i) ==
    IF i > Len(s) THEN <<>>
    ELSE IF s[i] \in tags /\ DigitRunEnd(s, i + 1) >= i + 1
         THEN <<SubSeq(s, i, DigitRunEnd(s, i + 1))>>
                  \o FindAll(tags, s, DigitRunEnd(s, i + 1) + 1)
         ELSE FindAll(tags, s, i + 1)

\* [int(x[1:]) for x in matches]
MatchIds(matches) ==
    [k \in 1..Len(matches) |-> ParseInt(SubSeq(matches[k], 2, Len(matches[k])))]

\* a history pattern that lost its  #\d+  alternative
HistoryTagsAtOnly == {"@"}

\* the tags of the history pattern  @\d+|#\d+
HistoryTags == {"@", "#"}

\* a label pattern that took the history's  #\d+  alternative
LabelTagsWithHash == {"@", "#"}

\* the tag of the label pattern  @\d+
LabelTags == {"@"}

InputMatch(h) == MatchIds(FindAll(HistoryTags, h, 1))
LabelsMatch(l) == MatchIds(FindAll(LabelTags, l, 1))

Range(f) == {f[x] : x \in DOMAIN f}

-----------------------------------------------------------------------------
(* vectorize *)

\* torch.zeros(n)
Zeros(n) == [i \in 0..(n - 1) |-> 0]

\* an index assignment that drops the indices beyond the vector silently
IndexUnchecked(n, ids) == TRUE

\* vec[ids] = 1 for a list of non-negative indices; needs every index < n
IndexInBounds(n, ids) == \A k \in DOMAIN ids : ids[k] < n
IndexPut(vec, ids) == [i \in DOMAIN vec |-> IF i \in Range(ids) THEN 1 ELSE vec[i]]

\* del d[k1], d[k2], ...
DelKeys(d, ks) == [k \in (DOMAIN d) \ ks |-> d[k]]
\* d[k] = v
SetKey(d, key, v) == [k \in (DOMAIN d) \cup {key} |-> IF k = key THEN v ELSE d[k]]

LabelType(o) ==
    IF "labels" \in DOMAIN o THEN "labels"
    ELSE IF "eval_labels" \in DOMAIN o THEN "eval_labels"
    ELSE "None"

VecKey(label_type) ==
    IF label_type = "labels" THEN "labels_vec" ELSE "eval_labels_vec"

\* a strip that forgets obs['text']
StripLabelOnly(o, label_type) == DelKeys(o, {label_type})

\* del obs['text'], obs[label_type]
Strip(o, label_type) == DelKeys(o, {"text", label_type})

\* the dict vectorize leaves behind and how the call ends
Vectorize(o, h, n) ==
    IF "text" \notin DOMAIN o THEN [obs |-> o, ret |-> "returned"]
    ELSE IF LabelType(o) = "None" THEN [obs |-> o, ret |-> "returned"]
    ELSE LET label_type == LabelType(o)
             input_match == InputMatch(h)
             labels_match == LabelsMatch(o[label_type][1])
         IN  IF labels_match = <<>>
             THEN [obs |-> Strip(o, label_type), ret |-> "returned"]
             ELSE IF ~IndexInBounds(n, input_match) \/ ~IndexInBounds(n, labels_match)
             THEN [obs |-> o, ret |-> "IndexError"]
             ELSE [obs |-> SetKey(SetKey(o, "text_vec", IndexPut(Zeros(n), input_match)),
                                  VecKey(label_type), IndexPut(Zeros(n), labels_match)),
                   ret |-> "returned"]

-----------------------------------------------------------------------------
(* Numbers of the report: rationals, and values rounded to significant figures *)

TopK == 100
RecallAt1 == 1
RecallAt10 == 10
RecallAt50 == 50
SigFigs == 4

RECURSIVE Pow10(_)
Pow10(k) == IF k <= 0 THEN 1 ELSE 10 * Pow10(k - 1)

\* floor(log10(a / b)) for a, b > 0
RECURSIVE FloorLog10(_, _)
FloorLog10(a, b) ==
    IF a >= 10 * b THEN 1 + FloorLog10(a, 10 * b)
    ELSE IF a < b THEN FloorLog10(10 * a, b) - 1
    ELSE 0

\* round(a / b) for a >= 0, b > 0 (no tie arises for the quotients met here)
RoundDiv(a, b) == (2 * a + b) \div (2 * b)

\* round_sigfigs(a / b, sigfigs): the value m * 10^e, as [m |-> m, e |-> e]
RoundSigfigs(a, b, sigfigs) ==
    IF a = 0 THEN [m |-> 0, e |-> 0]
    ELSE LET e == FloorLog10(a, b) - sigfigs + 1
         IN  IF e >= 0 THEN [m |-> RoundDiv(a, b * Pow10(e)), e |-> e]
                       ELSE [m |-> RoundDiv(a * Pow10(0 - e), b), e |-> e]

\* sum(xs) of a list of integers
RECURSIVE Sum(_)
Sum(xs) == IF xs = <<>> THEN 0 ELSE xs[1] + Sum(Tail(xs))

-----------------------------------------------------------------------------
(* The agent: construction, share, metrics *)

AgentIds == {"main", "copy"}
NoRef == "none"

\* self.metrics as __init__ and reset_metrics leave it; loss is a float, which
\* is NaN (nan = TRUE) or the number val
NewMetrics ==
    [loss |-> [nan |-> FALSE, val |-> 0], r1 |-> <<>>, r10 |-> <<>>, r50 |-> <<>>,
     num_tokens |-> 0]

Metrics(a) == metricsHeap[metricsRef[a]]

\* a share() that hands out a copy of the model, a model object of its own
ShareCopy(a) == [autorec |-> "copy"]

\* the table share() returns: the model object of the sharing agent
Share(a) == [autorec |-> modelRef[a]]

NoShared == [autorec |-> NoRef]

\* __init__(opt, shared) of agent a
Construct(a, shared) ==
    /\ a \notin created
    /\ created' = created \cup {a}
    /\ modelRef' = [modelRef EXCEPT ![a] = IF shared = NoShared THEN a ELSE shared.autorec]
    /\ optSteps' = [optSteps EXCEPT ![a] = 0]
    /\ metricsRef' = [metricsRef EXCEPT ![a] = a]
    /\ metricsHeap' = [metricsHeap EXCEPT ![a] = NewMetrics]
    /\ updates' = [updates EXCEPT ![a] = 0]
    /\ evalTokens' = [evalTokens EXCEPT ![a] = 0]
    /\ last' = [op |-> "__init__", agent |-> a, arg |-> <<>>, err |-> "none", val |-> <<>>]
    /\ UNCHANGED modelParams

\* an agent created from the share() table of an existing one
CreateShared(src, a) ==
    /\ src \in created
    /\ Construct(a, Share(src))
    /\ UNCHANGED vecVars

\* reset_metrics()
ResetMetrics(a) ==
    /\ a \in created
    /\ metricsHeap' = [metricsHeap EXCEPT ![metricsRef[a]] = NewMetrics]
    /\ evalTokens' = [evalTokens EXCEPT ![a] = 0]
    /\ last' = [op |-> "reset_metrics", agent |-> a, arg |-> <<>>, err |-> "none", val |-> <<>>]
    /\ UNCHANGED <<created, modelRef, modelParams, optSteps, metricsRef, updates>>
    /\ UNCHANGED vecVars

\* a report that does not look whether the recall list is empty
RecallAlwaysReported(xs) == TRUE

\* self.metrics[f"recall@{x}"] != []
RecallReported(xs) == xs # <<>>

\* the dict report() builds (m, merged into an empty base report), or the error
ReportValue(mt) ==
    IF mt.num_tokens = 0 THEN [err |-> "ZeroDivisionError", val |-> <<>>]
    ELSE LET m0 == [k \in {"num_tokens", "loss"} |->
                       IF k = "num_tokens"
                       THEN [nan |-> FALSE, r |-> RoundSigfigs(mt.num_tokens, 1, SigFigs)]
                       ELSE IF mt.loss.nan THEN [nan |-> TRUE, r |-> [m |-> 0, e |-> 0]]
                       ELSE [nan |-> FALSE,
                             r |-> RoundSigfigs(mt.loss.val, mt.num_tokens, SigFigs)]]
             Mean(xs) == [nan |-> FALSE, r |-> RoundSigfigs(Sum(xs), Len(xs), SigFigs)]
             m1 == IF RecallReported(mt.r1) THEN SetKey(m0, "recall@1", Mean(mt.r1)) ELSE m0
             m2 == IF RecallReported(mt.r10) THEN SetKey(m1, "recall@10", Mean(mt.r10)) ELSE m1
             m3 == IF RecallReported(mt.r50) THEN SetKey(m2, "recall@50", Mean(mt.r50)) ELSE m2
         IN  [err |-> "none", val |-> m3]

\* report()
Report(a) ==
    /\ a \in created
    /\ last' = [op |-> "report", agent |-> a, arg |-> <<>>,
                err |-> ReportValue(Metrics(a)).err, val |-> ReportValue(Metrics(a)).val]
    /\ UNCHANGED <<created, modelRef, modelParams, optSteps, metricsRef, metricsHeap,
                   updates, evalTokens>>
    /\ UNCHANGED vecVars

-----------------------------------------------------------------------------
(* Batches and the two steps *)

\* (row, movie index) places of label_vec that may hold a 1
Positions == {<<0, 0>>, <<0, 1>>}

\* a batch: whether text_vec is there, and label_vec (0 outside Positions)
Batches == [text_vec : BOOLEAN, label_vec : [Positions -> {0, 1}]]

\* a count of the batch rows that hold a 1, not of the 1s
CountRows(label_vec) == Cardinality({p[1] : p \in {q \in Positions : label_vec[q] = 1}})
\* (batch.label_vec == 1).sum().item()
CountOnes(label_vec) == Cardinality({p \in Positions : label_vec[p] = 1})

\* whether the forward pass of the model, log_softmax and the loss raise on a
\* table of bs input rows: they are to tolerate any bs, zero included
ForwardFails(bs) == FALSE

\* loss.item() of nn.NLLLoss() (mean reduction) over bs rows: NaN for no row
Criterion(bs, l) == IF bs = 0 THEN [nan |-> TRUE, val |-> 0] ELSE [nan |-> FALSE, val |-> l]

\* self.metrics["loss"] += x
AddLoss(acc, x) ==
    IF acc.nan \/ x.nan THEN [nan |-> TRUE, val |-> 0]
    ELSE [nan |-> FALSE, val |-> acc.val + x.val]

\* values of loss.item() over a table with rows: zero, and one unit of loss
LossVals == {0, 1}

\* the position of the target among the movies ordered by score
Ranks == {RecallAt1, RecallAt1 + 1, RecallAt10, RecallAt10 + 1, RecallAt50,
          RecallAt50 + 1}

\* int(ys[b].item() in pred_idx[b][:k].tolist()), pred_idx the TopK best indices
InTop(rank, k) == IF rank <= TopK /\ rank <= k THEN 1 ELSE 0

\* train_step(batch)
TrainStep(a, batch, l, maxTokens, maxUpdates) ==
    /\ a \in created
    /\ batch.text_vec
    /\ LET bs == CountOnes(batch.label_vec)
           mt == Metrics(a)
       IN  /\ mt.num_tokens + bs <= maxTokens
           /\ updates[a] < maxUpdates
           /\ IF ForwardFails(bs)
              THEN /\ last' = [op |-> "train_step", agent |-> a,
                               arg |-> [batch |-> batch, rank |-> <<>>],
                               err |-> "RuntimeError", val |-> <<>>]
                   /\ UNCHANGED <<metricsHeap, modelParams, optSteps, updates>>
              ELSE /\ metricsHeap' = [metricsHeap EXCEPT ![metricsRef[a]] =
                          [mt EXCEPT !.loss = AddLoss(mt.loss, Criterion(bs, l)),
                                     !.num_tokens = mt.num_tokens + bs]]
                   /\ modelParams' = [modelParams EXCEPT ![modelRef[a]] = @ + 1]
                   /\ optSteps' = [optSteps EXCEPT ![a] = @ + 1]
                   /\ updates' = [updates EXCEPT ![a] = @ + 1]
                   /\ last' = [op |-> "train_step", agent |-> a,
                               arg |-> [batch |-> batch, rank |-> <<>>],
                               err |-> "none", val |-> <<>>]
    /\ UNCHANGED <<created, modelRef, metricsRef, evalTokens>>
    /\ UNCHANGED vecVars

\* an early return that looks at label_vec as well
EvalSkipsOnLabels(batch) == ~batch.text_vec /\ CountOnes(batch.label_vec) > 0
\* if batch.text_vec is None: return
EvalSkips(batch) == ~batch.text_vec

\* eval_step(batch); rank[i] places the target of the i-th expanded example
EvalStep(a, batch, l, rank, maxTokens) ==
    /\ a \in created
    /\ IF EvalSkips(batch)
       THEN /\ last' = [op |-> "eval_step", agent |-> a,
                        arg |-> [batch |-> batch, rank |-> rank],
                        err |-> "none", val |-> <<>>]
            /\ UNCHANGED <<metricsHeap, evalTokens>>
       ELSE LET bs == CountOnes(batch.label_vec)
                mt == Metrics(a)
                acc == [mt EXCEPT !.loss = AddLoss(mt.loss, Criterion(bs, l)),
                                  !.num_tokens = mt.num_tokens + bs]
            IN  /\ mt.num_tokens + bs <= maxTokens
                /\ IF ForwardFails(bs)
                   THEN /\ last' = [op |-> "eval_step", agent |-> a,
                                    arg |-> [batch |-> batch, rank |-> rank],
                                    err |-> "RuntimeError", val |-> <<>>]
                        /\ UNCHANGED <<metricsHeap, evalTokens>>
                   ELSE IF n_movies < TopK
                   THEN /\ metricsHeap' = [metricsHeap EXCEPT ![metricsRef[a]] = acc]
                        /\ evalTokens' = [evalTokens EXCEPT ![a] = @ + bs]
                        /\ last' = [op |-> "eval_step", agent |-> a,
                                    arg |-> [batch |-> batch, rank |-> rank],
                                    err |-> "RuntimeError", val |-> <<>>]
                   ELSE /\ metricsHeap' = [metricsHeap EXCEPT ![metricsRef[a]] =
                               [acc EXCEPT
                                  !.r1 = @ \o [i \in 1..bs |-> InTop(rank[i], RecallAt1)],
                                  !.r10 = @ \o [i \in 1..bs |-> InTop(rank[i], RecallAt10)],
                                  !.r50 = @ \o [i \in 1..bs |-> InTop(rank[i], RecallAt50)]]]
                        /\ evalTokens' = [evalTokens EXCEPT ![a] = @ + bs]
                        /\ last' = [op |-> "eval_step", agent |-> a,
                                    arg |-> [batch |-> batch, rank |-> rank],
                                    err |-> "none", val |-> <<>>]
    /\ UNCHANGED <<created, modelRef, modelParams, optSteps, metricsRef, updates>>
    /\ UNCHANGED vecVars

-----------------------------------------------------------------------------
(* Observations handed to vectorize *)

NMovies == 2

TextChoices == {<<"@", "1">>}
OtherLabel == <<"@", "0">>

\* labels of an observation that has eval_labels too: no tag, a # tag, an @ tag
\* in the catalogue, an @ tag outside it
LabelsBesideEval == {<<>>, <<"#", "1">>, <<"@", "1">>, <<"@", "1", "1">>}

\* dicts without text; with text alone; with text and labels, eval_labels or both
Observations ==
    LET L == StringsUpTo(LabelAlphabet, MaxLabelLen)
    IN  {<<>>, [labels |-> <<OtherLabel>>]}
        \cup {[text |-> t] : t \in TextChoices}
        \cup {[text |-> t, labels |-> <<l>>] : t \in TextChoices, l \in L}
        \cup {[text |-> t, eval_labels |-> <<l>>] : t \in TextChoices, l \in L}
        \cup {[text |-> t, labels |-> <<l>>, eval_labels |-> <<OtherLabel>>] :
                 t \in TextChoices, l \in LabelsBesideEval}

\* the state after AutorecTagAgent(opt) built the first agent from scratch
Constructed ==
    /\ created = {"main"}
    /\ modelRef = [a \in AgentIds |-> IF a = "main" THEN "main" ELSE NoRef]
    /\ modelParams = [r \in AgentIds |-> 0]
    /\ optSteps = [a \in AgentIds |-> 0]
    /\ metricsRef = [a \in AgentIds |-> a]
    /\ metricsHeap = [r \in AgentIds |-> NewMetrics]
    /\ updates = [a \in AgentIds |-> 0]
    /\ evalTokens = [a \in AgentIds |-> 0]
    /\ last = [op |-> "__init__", agent |-> "main", arg |-> <<>>, err |-> "none", val |-> <<>>]

NoObservation ==
    /\ history = <<>>
    /\ obs0 = <<>>
    /\ obs = <<>>
    /\ ret = "none"
    /\ vcalls = 0

VecInit ==
    /\ n_movies = NMovies
    /\ history \in StringsUpTo(HistoryAlphabet, MaxHistLen)
    /\ obs0 \in Observations
    /\ obs = obs0
    /\ ret = "none"
    /\ vcalls = 0
    /\ Constructed

VectorizeCall ==
    /\ vcalls < MaxCalls
    /\ LET r == Vectorize(obs, history, n_movies)
       IN  /\ obs' = r.obs
           /\ ret' = r.ret
    /\ vcalls' = vcalls + 1
    /\ UNCHANGED <<n_movies, history, obs0>>
    /\ UNCHANGED agentVars

VecNext == VectorizeCall

VecSpec == VecInit /\ [][VecNext]_vars

-----------------------------------------------------------------------------
(* One agent: steps, resets and reports *)

MaxTokens == 3
MaxUpdates == 2

CatalogSizes == {TopK - 1, TopK}

Init ==
    /\ n_movies \in CatalogSizes
    /\ NoObservation
    /\ Constructed

\* the batches that keep num_tokens of agent a within cap
BatchesWithin(a, cap) ==
    {b \in Batches : Metrics(a).num_tokens + CountOnes(b.label_vec) <= cap}

\* one rank per expanded example of the batch (none when text_vec is missing)
RankLists(batch, ranks) ==
    [1..(IF batch.text_vec THEN CountOnes(batch.label_vec) ELSE 0) -> ranks]

Next ==
    \/ \E a \in created : \E batch \in BatchesWithin(a, MaxTokens), l \in LossVals :
           TrainStep(a, batch, l, MaxTokens, MaxUpdates)
    \/ \E a \in created : \E batch \in BatchesWithin(a, MaxTokens), l \in LossVals :
           \E rank \in RankLists(batch, Ranks) : EvalStep(a, batch, l, rank, MaxTokens)
    \/ \E a \in AgentIds : ResetMetrics(a)
    \/ \E a \in AgentIds : Report(a)

Spec == Init /\ [][Next]_vars

-----------------------------------------------------------------------------
(* Two agents, the second built from the share() table of the first *)

MaxSharedTokens == 1
MaxSharedUpdates == 1

\* the target ranked first, or second
SharedRanks == {RecallAt1, RecallAt1 + 1}

SharedNext ==
    \/ \E src \in AgentIds, a \in AgentIds : CreateShared(src, a)
    \/ \E a \in created : \E batch \in BatchesWithin(a, MaxSharedTokens), l \in LossVals :
           TrainStep(a, batch, l, MaxSharedTokens, MaxSharedUpdates)
    \/ \E a \in created : \E batch \in BatchesWithin(a, MaxSharedTokens), l \in LossVals :
           \E rank \in RankLists(batch, SharedRanks) :
               EvalStep(a, batch, l, rank, MaxSharedTokens)
    \/ \E a \in AgentIds : ResetMetrics(a)

SharedInit ==
    /\ n_movies = TopK
    /\ NoObservation
    /\ Constructed

SharedSpec == SharedInit /\ [][SharedNext]_vars

-----------------------------------------------------------------------------
(* What the specification calls a mention: a tag character followed by a     *)
(* maximal run of decimal digits, read as a base-10 integer.                 *)

\* p is the place of a tag of s that digits follow
IsMention(s, p, tags) ==
    /\ p \in 1..Len(s)
    /\ s[p] \in tags
    /\ p + 1 <= Len(s)
    /\ s[p + 1] \in Digits

\* the end of the maximal digit run after the tag at p
MentionEnd(s, p) ==
    CHOOSE q \in (p + 1)..Len(s) :
        /\ \A k \in (p + 1)..q : s[k] \in Digits
        /\ (q = Len(s) \/ s[q + 1] \notin Digits)

RECURSIVE PlaceValue(_, _, _)
PlaceValue(s, k, q) ==
    IF k > q THEN 0 ELSE DigitVal(s[k]) * Pow10(q - k) + PlaceValue(s, k + 1, q)

MentionedIds(s, tags) ==
    {PlaceValue(s, p + 1, MentionEnd(s, p)) : p \in {x \in 1..Len(s) : IsMention(s, x, tags)}}

Indicator(n, ids) == [i \in 0..(n - 1) |-> IF i \in ids THEN 1 ELSE 0]

OnesOf(vec) == {i \in DOMAIN vec : vec[i] = 1}

VecKeys == {"text_vec", "labels_vec", "eval_labels_vec"}

HasTextAndLabel(o) == "text" \in DOMAIN o /\ ({"labels", "eval_labels"} \cap DOMAIN o) # {}

\* the label field vectorize is to use: labels when present, otherwise eval_labels
FieldUsed(o) == IF "labels" \in DOMAIN o THEN "labels" ELSE "eval_labels"

\* the first label of that field
FirstLabel(o) == o[FieldUsed(o)][1]

HasLabel(o) == ({"labels", "eval_labels"} \cap DOMAIN o) # {}

InCatalog(ids) == \A i \in ids : i < n_movies

HistoryIds == MentionedIds(history, {"@", "#"})
LabelIds == MentionedIds(FirstLabel(obs0), {"@"})

-----------------------------------------------------------------------------
(* Claims about vectorize, checked under VecSpec *)

TextVecIsPresence ==
    /\ ret = "returned"
    /\ "text_vec" \in DOMAIN obs
    /\ obs["text_vec"] = Indicator(n_movies, HistoryIds)
    /\ Cardinality(OnesOf(obs["text_vec"])) = Cardinality(HistoryIds)

\* C1 as stated: for an observation with text and a label carrying at least one
\* @ mention, and a history whose mention IDs are all in [0, n_movies), vectorize
\* sets text_vec to the presence vector of the IDs mentioned in the history.
C1_AsStated ==
    (vcalls >= 1 /\ HasTextAndLabel(obs0) /\ LabelIds # {} /\ InCatalog(HistoryIds))
        => TextVecIsPresence

\* C1 amended: the same, provided the label's @ mention IDs are in [0, n_movies)
\* as well.
C1_TextVec ==
    (vcalls >= 1 /\ HasTextAndLabel(obs0) /\ LabelIds # {} /\ InCatalog(HistoryIds)
         /\ InCatalog(LabelIds))
        => TextVecIsPresence

\* a history that mentions one movie twice was vectorized
C1_Witness ==
    /\ vcalls >= 1
    /\ HasTextAndLabel(obs0) /\ LabelIds # {} /\ InCatalog(HistoryIds) /\ InCatalog(LabelIds)
    /\ Len(InputMatch(history)) = 2
    /\ Cardinality(HistoryIds) = 1
    /\ "#" \in Range(history)
    /\ "text_vec" \in DOMAIN obs

\* C2: label extraction recognises only @ tags: the label vector, when one is
\* produced, is the presence vector of the label's @ mention IDs and is stored
\* under the field used (labels when present, otherwise eval_labels); a label
\* without @ mention (only # tags, say) counts as carrying no mention, and the
\* observation is then stripped.
C2_LabelVec ==
    (vcalls >= 1 /\ HasTextAndLabel(obs0)) =>
        /\ (ret = "returned" /\ LabelIds # {}) =>
              /\ VecKey(FieldUsed(obs0)) \in DOMAIN obs
              /\ obs[VecKey(FieldUsed(obs0))] = Indicator(n_movies, LabelIds)
              /\ (VecKeys \cap DOMAIN obs) = {"text_vec", VecKey(FieldUsed(obs0))}
        /\ LabelIds = {} =>
              /\ ret = "returned"
              /\ (VecKeys \cap DOMAIN obs) = {}
              /\ FieldUsed(obs0) \notin DOMAIN obs
        /\ ret = "IndexError" => LabelIds # {}

\* a label whose only tag is a # tag was vectorized
C2_Witness ==
    /\ vcalls >= 1
    /\ HasTextAndLabel(obs0)
    /\ MentionedIds(FirstLabel(obs0), {"#"}) # {}
    /\ LabelIds = {}
    /\ FieldUsed(obs0) \notin DOMAIN obs

\* C3: an observation with text and a label without mention comes back without
\* text, without that label field and without any *_vec field, and a further
\* vectorize call returns it as it is.
C3_StripIdempotent ==
    (vcalls >= 1 /\ HasTextAndLabel(obs0) /\ LabelIds = {}) =>
        /\ ret = "returned"
        /\ "text" \notin DOMAIN obs
        /\ FieldUsed(obs0) \notin DOMAIN obs
        /\ (VecKeys \cap DOMAIN obs) = {}
        /\ \A k \in DOMAIN obs : k \in DOMAIN obs0 /\ obs[k] = obs0[k]
        /\ DOMAIN obs0 = DOMAIN obs \cup {"text", FieldUsed(obs0)}
        /\ Vectorize(obs, history, n_movies) = [obs |-> obs, ret |-> "returned"]

\* vectorize ran twice on an observation whose label carries no mention
C3_Witness ==
    /\ vcalls = 2
    /\ HasTextAndLabel(obs0)
    /\ LabelIds = {}
    /\ "text" \notin DOMAIN obs

OutOfCatalog == ~InCatalog(HistoryIds) \/ (HasLabel(obs0) /\ ~InCatalog(LabelIds))

\* C8 as stated: whenever the history or the label carries a mention ID outside
\* [0, n_movies), vectorize fails with an indexing error and leaves the
\* observation as it was.
C8_AsStated ==
    (vcalls >= 1 /\ OutOfCatalog) => (ret = "IndexError" /\ obs = obs0)

\* C8 amended: the same for an observation that has text and a label field whose
\* first label carries at least one @ mention.
C8_IndexError ==
    (vcalls >= 1 /\ HasTextAndLabel(obs0) /\ LabelIds # {} /\ OutOfCatalog)
        => (ret = "IndexError" /\ obs = obs0)

\* vectorize failed on a label mention outside the catalogue
C8_Witness ==
    /\ vcalls >= 1
    /\ HasTextAndLabel(obs0) /\ LabelIds # {}
    /\ InCatalog(HistoryIds) /\ ~InCatalog(LabelIds)
    /\ ret = "IndexError"

-----------------------------------------------------------------------------
(* Claims about the steps, the metrics and the report, checked under Spec *)

\* the number of places of a label_vec that hold a 1
Ones(label_vec) == Cardinality({p \in DOMAIN label_vec : label_vec[p] = 1})

ZeroMetrics ==
    [loss |-> [nan |-> FALSE, val |-> 0], r1 |-> <<>>, r10 |-> <<>>, r50 |-> <<>>,
     num_tokens |-> 0]

Hits(rank, k) == [i \in 1..Len(rank) |-> IF rank[i] <= k THEN 1 ELSE 0]

RecallAppended ==
    LET a == last'.agent
        rank == last'.arg.rank
    IN  /\ last'.err = "none"
        /\ Len(rank) = Ones(last'.arg.batch.label_vec)
        /\ metricsHeap'[metricsRef'[a]].r1 = Metrics(a).r1 \o Hits(rank, 1)
        /\ metricsHeap'[metricsRef'[a]].r10 = Metrics(a).r10 \o Hits(rank, 10)
        /\ metricsHeap'[metricsRef'[a]].r50 = Metrics(a).r50 \o Hits(rank, 50)

\* C5: for every evaluation batch with a text_vec, eval_step appends, per
\* expanded example, the indicators of the target being among the first 1, 10
\* and 50 entries of the top-100 ranking (a target ranked 2nd: 0, 1, 1).
C5_Recall ==
    [][(last'.op = "eval_step" /\ last'.arg.batch.text_vec) => RecallAppended]_vars

\* C5 on a catalogue of at least 100 movies, where torch.topk(k=100) succeeds.
C5_RecallOnLargeCatalog ==
    [][(last'.op = "eval_step" /\ last'.arg.batch.text_vec /\ n_movies >= 100)
           => RecallAppended]_vars

\* an evaluation step ranked the target of its last example second
C5_Witness ==
    /\ last.op = "eval_step"
    /\ last.err = "none"
    /\ last.arg.rank # <<>>
    /\ last.arg.rank[Len(last.arg.rank)] = 2
    /\ LET mt == Metrics(last.agent)
       IN  /\ mt.r1[Len(mt.r1)] = 0
           /\ mt.r10[Len(mt.r10)] = 1
           /\ mt.r50[Len(mt.r50)] = 1

\* the reported number r is exactly a / b
Exactly(r, a, b) ==
    IF r.e >= 0 THEN r.m * Pow10(r.e) * b = a ELSE r.m * b = a * Pow10(0 - r.e)

\* the reported number r is a / b to four significant figures
ToFourFigures(r, a, b) ==
    IF a = 0 THEN r.m = 0
    ELSE /\ r.m >= 1000 /\ r.m <= 10000
         /\ IF r.e >= 0
            THEN /\ 2 * (r.m * Pow10(r.e) * b - a) <= Pow10(r.e) * b
                 /\ 2 * (a - r.m * Pow10(r.e) * b) <= Pow10(r.e) * b
            ELSE /\ 2 * (r.m * b - a * Pow10(0 - r.e)) <= b
                 /\ 2 * (a * Pow10(0 - r.e) - r.m * b) <= b

RecallKeysReported(mt, m) ==
    /\ ("recall@1" \in DOMAIN m) <=> (mt.r1 # <<>>)
    /\ ("recall@10" \in DOMAIN m) <=> (mt.r10 # <<>>)
    /\ ("recall@50" \in DOMAIN m) <=> (mt.r50 # <<>>)

\* C6 as stated: report() fails with a division by zero when num_tokens is 0;
\* otherwise it returns loss = accumulated loss / accumulated num_tokens and a
\* recall@k entry only for the recall lists that are not empty.
C6_AsStated ==
    last.op = "report" =>
        LET mt == Metrics(last.agent)
        IN  /\ mt.num_tokens = 0 => last.err = "ZeroDivisionError"
            /\ mt.num_tokens > 0 =>
                  /\ last.err = "none"
                  /\ last.val["loss"].nan = mt.loss.nan
                  /\ ~mt.loss.nan => Exactly(last.val["loss"].r, mt.loss.val, mt.num_tokens)
                  /\ RecallKeysReported(mt, last.val)

\* C6 amended: the loss returned is accumulated loss / accumulated num_tokens
\* rounded to four significant figures.
C6_Report ==
    last.op = "report" =>
        LET mt == Metrics(last.agent)
        IN  /\ mt.num_tokens = 0 => (last.err = "ZeroDivisionError" /\ last.val = <<>>)
            /\ mt.num_tokens > 0 =>
                  /\ last.err = "none"
                  /\ last.val["loss"].nan = mt.loss.nan
                  /\ ~mt.loss.nan =>
                         ToFourFigures(last.val["loss"].r, mt.loss.val, mt.num_tokens)
                  /\ RecallKeysReported(mt, last.val)

\* a report was returned with one recall list empty no longer and with tokens seen
C6_Witness ==
    /\ last.op = "report"
    /\ last.err = "none"
    /\ Metrics(last.agent).r1 # <<>>
    /\ ~Metrics(last.agent).loss.nan
    /\ Metrics(last.agent).loss.val > 0
    /\ "recall@1" \in DOMAIN last.val

\* C7: eval_step leaves the training-update counter, the model parameters and
\* the optimizer as they are, and leaves every metric as it is too when the
\* batch has no text_vec.
C7_EvalFrame ==
    [][last'.op = "eval_step" =>
          /\ updates' = updates
          /\ modelParams' = modelParams
          /\ modelRef' = modelRef
          /\ optSteps' = optSteps
          /\ ~last'.arg.batch.text_vec =>
                 (metricsHeap' = metricsHeap /\ metricsRef' = metricsRef
                    /\ last'.err = "none")]_vars

\* an evaluation step ran on a batch without text_vec after metrics were gathered
C7_Witness ==
    /\ last.op = "eval_step"
    /\ ~last.arg.batch.text_vec
    /\ Metrics(last.agent).num_tokens > 0
    /\ updates[last.agent] > 0

RecallListsWellFormed(mt) ==
    /\ Len(mt.r1) = Len(mt.r10)
    /\ Len(mt.r10) = Len(mt.r50)
    /\ Len(mt.r1) <= mt.num_tokens
    /\ \A i \in 1..Len(mt.r1) :
          /\ mt.r1[i] \in {0, 1} /\ mt.r10[i] \in {0, 1} /\ mt.r50[i] \in {0, 1}
          /\ mt.r1[i] <= mt.r10[i]
          /\ mt.r10[i] <= mt.r50[i]

\* C10: the three recall lists have one length, which is at most
\* num_tokens and equals the tokens eval steps added since the last reset; the
\* entries are 0 or 1 and monotone in k; reset_metrics leaves loss 0,
\* num_tokens 0 and three empty lists.
C10_RecallLists ==
    \A a \in created :
        /\ RecallListsWellFormed(Metrics(a))
        /\ Len(Metrics(a).r1) = evalTokens[a]
        /\ (last.op = "reset_metrics" /\ last.agent = a) => Metrics(a) = ZeroMetrics

\* C10 on a catalogue of at least 100 movies (on a smaller one eval_step adds
\* its tokens and fails before it appends).
C10_RecallListsOnLargeCatalog ==
    \A a \in created :
        /\ RecallListsWellFormed(Metrics(a))
        /\ n_movies >= 100 => Len(Metrics(a).r1) = evalTokens[a]
        /\ (last.op = "reset_metrics" /\ last.agent = a) => Metrics(a) = ZeroMetrics

\* training and evaluation both added tokens, and the recall lists hold the
\* evaluation's only
C10_Witness ==
    /\ n_movies >= 100
    /\ updates["main"] > 0
    /\ Len(Metrics("main").r1) = 2
    /\ Metrics("main").num_tokens = 3
    /\ evalTokens["main"] = 2
    /\ Metrics("main").r1[1] < Metrics("main").r50[1]

-----------------------------------------------------------------------------
(* The claim about shared agents, checked under SharedSpec *)

SharedByReference ==
    \A a, b \in created :
        /\ modelRef[a] = modelRef[b]
        /\ modelParams[modelRef[a]] = modelParams[modelRef[b]]
        /\ a # b => metricsRef[a] # metricsRef[b]

OthersUntouched ==
    \A b \in created :
        (last'.op \in {"train_step", "eval_step", "reset_metrics"} /\ last'.agent # b) =>
            /\ metricsHeap'[metricsRef'[b]] = metricsHeap[metricsRef[b]]
            /\ optSteps'[b] = optSteps[b]
            /\ updates'[b] = updates[b]
            /\ last'.op = "train_step" =>
                   modelParams'[modelRef'[b]] # modelParams[modelRef[b]]

\* C9: an agent built from another's share() table holds the same model object
\* and its own metrics and optimizer: a step or reset on one copy leaves the
\* other's metrics as they are, and a training step of one changes the
\* parameters the other sees.
C9_Shared == []SharedByReference /\ [][OthersUntouched]_vars

\* the first agent trained while its copy had metrics of its own
C9_Witness ==
    /\ created = {"main", "copy"}
    /\ last.op = "train_step"
    /\ last.agent = "main"
    /\ Metrics("copy").num_tokens > 0
    /\ Metrics("main") # Metrics("copy")
    /\ modelParams[modelRef["copy"]] > 0

====
